---- MODULE Spec2Model ----
(***************************************************************************)
(* CareerPath API (src/main.py, src/schemas.py): the request handlers of   *)
(* the career-guidance backend over a document store with the collections  *)
(* career, savedcareer, testquestion, testresult, counselor and            *)
(* contactmessage.                                                         *)
(*                                                                         *)
(* Texts that are searched (names, field, education, tags) are tuples of   *)
(* characters; identifier strings are kept apart from the ObjectId they    *)
(* spell; career documents keep the fields the queries and the card read   *)
(* (icon, descriptions, salaries, skills and growth paths are carried by   *)
(* no condition of any handler and are left out).                          *)
(***************************************************************************)
EXTENDS Integers, Sequences, FiniteSets, TLC

VARIABLES db, career, savedcareer, savedSeq, testquestion, testresult,
          counselor, contactmessage, resp, pc, loc, overlapped

vars == <<db, career, savedcareer, savedSeq, testquestion, testresult,
          counselor, contactmessage, resp, pc, loc, overlapped>>

stores == <<career, savedcareer, savedSeq, testquestion, testresult,
            counselor, contactmessage>>

conc == <<pc, loc, overlapped>>

\* ------------------------------------------------------------------ bounds
MaxSaved == 2
MaxResults == 1
MaxContact == 1
NClients == 2
CatalogSmall == 7
CatalogLarge == 61

\* ------------------------------------------------------- program constants
CareerLimit == 60
QuizLimit == 6
CounselorLimit == 100

\* ---------------------------------------------------------- optional values
None == <<>>
Some(x) == <<x>>

\* Python truthiness of an Optional[str] whose value is a character tuple.
TruthyText(o) == o # None /\ Len(o[1]) > 0

\* Python truthiness of an Optional[str] whose value is an atomic string.
TruthyStr(o) == o # None /\ o[1] # ""

\* ------------------------------------------------------------------- texts
TxNurse == <<"N","u","r","s","e">>
TxNurseTe == <<"U0C28","U0C30","U0C4D","U0C38","U0C4D">>
TxNurseEdu == <<"D","i","p","l","o","m","a","/","B",".","S","c"," ","N","u","r","s","i","n","g">>
TxHealthcare == <<"H","e","a","l","t","h","c","a","r","e">>
TxElectrician == <<"E","l","e","c","t","r","i","c","i","a","n">>
TxElectricianTe == <<"U0C0E","U0C32","U0C15","U0C4D","U0C1F","U0C4D","U0C30","U0C3F","U0C37","U0C3F","U0C2F","U0C28","U0C4D">>
TxElectricianEdu == <<"I","T","I"," ","E","l","e","c","t","r","i","c","i","a","n"," ","/"," ","A","p","p","r","e","n","t","i","c","e","s","h","i","p">>
TxTrades == <<"T","r","a","d","e","s">>
TxTeacher == <<"T","e","a","c","h","e","r">>
TxTeacherTe == <<"U0C09","U0C2A","U0C3E","U0C27","U0C4D","U0C2F","U0C3E","U0C2F","U0C41","U0C21","U0C41">>
TxTeacherEdu == <<"B",".","E","d"," ","/"," ","D",".","E","d">>
TxEducation == <<"E","d","u","c","a","t","i","o","n">>
TxHelping == <<"h","e","l","p","i","n","g">>
TxPeople == <<"p","e","o","p","l","e">>
TxFixing == <<"f","i","x","i","n","g">>
TxHandsOn == <<"h","a","n","d","s","-","o","n">>
TxTeaching == <<"t","e","a","c","h","i","n","g">>
TxCreative == <<"c","r","e","a","t","i","v","e">>
TxDesign == <<"D","e","s","i","g","n">>
TxLogic == <<"l","o","g","i","c">>
TxEngineering == <<"E","n","g","i","n","e","e","r","i","n","g">>

\* Case folding of the "i" option: the letters the model's texts use.
LowerOf == [A |-> "a", B |-> "b", C |-> "c", D |-> "d", E |-> "e", F |-> "f",
            G |-> "g", H |-> "h", I |-> "i", J |-> "j", K |-> "k", L |-> "l",
            M |-> "m", N |-> "n", O |-> "o", P |-> "p", Q |-> "q", R |-> "r",
            S |-> "s", T |-> "t", U |-> "u", V |-> "v", W |-> "w", X |-> "x",
            Y |-> "y", Z |-> "z"]

Lower(ch) == IF ch \in DOMAIN LowerOf THEN LowerOf[ch] ELSE ch

\* One pattern character against one text character, case folded: "." is
\* the regular expression's any-character, every other character of the
\* patterns used here (letters, digits, "-", "/", " ") stands for itself.
RegexCharMatch(p, ch) == p = "." \/ Lower(p) = Lower(ch)

\* {"$regex": pattern, "$options": "i"}: an unanchored search of text.
RegexSearch(pattern, text) ==
    \E i \in 0..(Len(text) - Len(pattern)) :
        \A j \in 1..Len(pattern) : RegexCharMatch(pattern[j], text[i + j])

\* {"tags": {"$in": [x]}}: the array field has an element equal to x.
InArray(x, arr) == \E i \in 1..Len(arr) : arr[i] = x

\* ------------------------------------------------------------- identifiers
\* An ObjectId is <<collection, n>>: unique, never reused.  An identifier
\* string names the ObjectId it spells and how: "hex" is str(ObjectId), the
\* 24 lower-case hex digits; "HEX" the same digits in upper case, which
\* ObjectId() parses to the same value; "bad" is a string that is not 24 hex
\* digits, for which ObjectId() raises InvalidId.
StrOid(oid) == [kind |-> "hex", oid |-> oid]
UpperStr(oid) == [kind |-> "HEX", oid |-> oid]
BadStr == [kind |-> "bad", oid |-> <<"bad", 0>>]
IsValidOid(s) == s.kind # "bad"
ObjectId(s) == s.oid

\* to_str_id: doc["id"] = str(doc.pop("_id")) on a career document.
to_str_id(d) ==
    [id |-> StrOid(d._id), name_en |-> d.name_en, name_te |-> d.name_te,
     education |-> d.education, job_type |-> d.job_type, field |-> d.field,
     tags |-> d.tags]

\* CareerCard(**doc): the card keeps id, names, education, job_type, field.
CareerCard(d) ==
    [id |-> d.id, name_en |-> d.name_en, name_te |-> d.name_te,
     education |-> d.education, job_type |-> d.job_type, field |-> d.field]

\* --------------------------------------------------------------- seed data
CareerDoc(n, ne, nt, edu, jt, f, tg) ==
    [_id |-> <<"career", n>>, name_en |-> ne, name_te |-> nt,
     education |-> edu, job_type |-> jt, field |-> f, tags |-> tg]

\* The three sample careers of seed_data, inserted after `base` documents.
SeedCareers(base) ==
    << CareerDoc(base + 1, TxNurse, TxNurseTe, TxNurseEdu, "Government",
                 TxHealthcare, <<TxHelping, TxPeople>>),
       CareerDoc(base + 2, TxElectrician, TxElectricianTe, TxElectricianEdu,
                 "Private", TxTrades, <<TxFixing, TxHandsOn>>),
       CareerDoc(base + 3, TxTeacher, TxTeacherTe, TxTeacherEdu, "Government",
                 TxEducation, <<TxTeaching, TxHelping>>) >>

\* The option keys of the five seeded quiz questions, by step.
SeedQuestionKeys ==
    << <<"fix", "help", "teach", "create">>,
       <<"out", "in", "both">>,
       <<"pay", "secure", "impact">>,
       <<"hands", "people", "logic", "art">>,
       <<"govt", "private", "self">> >>

SeedQuestions(base) ==
    [s \in 1..Len(SeedQuestionKeys) |->
        [_id |-> <<"testquestion", base + s>>, step |-> s,
         keys |-> SeedQuestionKeys[s]]]

\* The static question get_questions returns without a store.
FallbackQuestions == << [step |-> 1, keys |-> <<"fix", "help", "teach", "create">>] >>

SeedCounselors(base) ==
    << [_id |-> <<"counselor", base + 1>>, name |-> "Anitha R.",
        phone |-> "90000 11111", district |-> "Anantapur"],
       [_id |-> <<"counselor", base + 2>>, name |-> "Srinivas K.",
        phone |-> "90000 22222", district |-> "Kurnool"] >>

\* ------------------------------------------------------------ store calls
Min(a, b) == IF a <= b THEN a ELSE b

\* cursor.limit(n): the first n documents of the cursor.
Limit(docs, n) == SubSeq(docs, 1, Min(n, Len(docs)))

\* Handlers without the "db is None" guard.
DbAbsentNever == FALSE

\* The store handle db of the database module: None without a configured
\* store.  "if db" is taken to be "db is not None".
DbAbsent == db = "none"
DbTruthy == db # "none"

\* create_document(collection, data) of the database module: one insert,
\* returning the new identifier as a string.
CreateDocument(coll, doc) == Append(coll, doc)

\* insert_many(docs)
InsertMany(coll, docs) == coll \o docs

\* db["career"].find_one({"_id": oid}) / any collection keyed by _id.
FindOneById(coll, oid) ==
    LET hits == SelectSeq(coll, LAMBDA d : d._id = oid)
    IN  IF Len(hits) = 0 THEN None ELSE Some(hits[1])

\* A save_career whose existence check looks at the user alone.
FindOneSavedAnyCareer(coll, u, k) ==
    LET hits == SelectSeq(coll, LAMBDA d : d.user_id = u)
    IN  IF Len(hits) = 0 THEN None ELSE Some(hits[1])

\* db["savedcareer"].find_one({"user_id": u, "career_id": k})
FindOneSaved(coll, u, k) ==
    LET hits == SelectSeq(coll, LAMBDA d : d.user_id = u /\ d.career_id = k)
    IN  IF Len(hits) = 0 THEN None ELSE Some(hits[1])

\* db["savedcareer"].find({"user_id": u})
FindSavedByUser(coll, u) == SelectSeq(coll, LAMBDA d : d.user_id = u)

\* A delete_one whose filter leaves out the owner.
DeleteOneById(coll, oid, u) ==
    SelectSeq(coll, LAMBDA d : d._id # oid)

\* db["savedcareer"].delete_one({"_id": oid, "user_id": u}): the first
\* document matching both conditions is removed, if there is one.
DeleteOneSaved(coll, oid, u) ==
    LET idx == {i \in 1..Len(coll) : coll[i]._id = oid /\ coll[i].user_id = u}
    IN  IF idx = {} THEN coll
        ELSE LET m == CHOOSE i \in idx : \A j \in idx : i <= j
             IN  SubSeq(coll, 1, m - 1) \o SubSeq(coll, m + 1, Len(coll))

\* A find without the sort.
Unsorted(docs) == docs

\* find({}).sort("step", 1): ascending by step.
RECURSIVE SortByStep(_)
SortByStep(docs) ==
    IF Len(docs) = 0 THEN <<>>
    ELSE LET lo == CHOOSE s \in {docs[i].step : i \in 1..Len(docs)} :
                       \A i \in 1..Len(docs) : s <= docs[i].step
         IN  SelectSeq(docs, LAMBDA d : d.step = lo)
             \o SortByStep(SelectSeq(docs, LAMBDA d : d.step # lo))

\* ----------------------------------------------------------- query builders
\* list_careers: the query dict built from q, field and edu; a key the
\* handler does not set is None.
CareerQuery(q, field, edu) ==
    [qor       |-> IF TruthyText(q) THEN q ELSE None,
     field     |-> IF TruthyText(field) THEN field ELSE None,
     education |-> IF TruthyText(edu) THEN edu ELSE None]

\* The store's evaluation of that query on one career document.
MatchCareerQuery(query, d) ==
    /\ query.qor # None =>
          \/ RegexSearch(query.qor[1], d.name_en)
          \/ RegexSearch(query.qor[1], d.name_te)
          \/ RegexSearch(query.qor[1], d.field)
          \/ InArray(query.qor[1], d.tags)
    /\ query.field # None => d.field = query.field[1]
    /\ query.education # None => RegexSearch(query.education[1], d.education)

\* submit_test: the answer table.
tag_map ==
    [fix     |-> <<TxHandsOn, TxTrades>>,
     help    |-> <<TxHelping, TxHealthcare>>,
     teach   |-> <<TxTeaching, TxEducation>>,
     create  |-> <<TxCreative, TxDesign>>,
     logic   |-> <<TxLogic, TxEngineering>>,
     govt    |-> <<"Government">>,
     private |-> <<"Private">>,
     self    |-> <<"Self-employed">>]

\* submit_test: the filters list, one entry per answer found in tag_map.
QuizFilters(answers) ==
    LET known == SelectSeq(answers, LAMBDA a : a \in DOMAIN tag_map)
    IN  [i \in 1..Len(known) |->
            LET val == tag_map[known[i]]
            IN  IF Len(val) = 1
                THEN [kind |-> "job_type", job_type |-> val[1],
                      tag |-> <<>>, field |-> <<>>]
                ELSE [kind |-> "or", job_type |-> "",
                      tag |-> val[1], field |-> val[2]]]

\* A filter that asks for the tag and the field together.
MatchFilterBoth(f, d) ==
    IF f.kind = "job_type"
    THEN d.job_type = f.job_type
    ELSE InArray(f.tag, d.tags) /\ d.field = f.field

\* One filter on one career document.
MatchFilter(f, d) ==
    IF f.kind = "job_type"
    THEN d.job_type = f.job_type
    ELSE InArray(f.tag, d.tags) \/ d.field = f.field

\* {"$and": filters} if filters else {}
MatchQuizQuery(filters, d) ==
    \A i \in 1..Len(filters) : MatchFilter(filters[i], d)

\* A default applied to a missing user_id only.
StoredUserIfNone(user) == IF user # None THEN user[1] ELSE "guest"

\* submit_test: the stored user_id, payload.user_id or "guest".
StoredUser(user) == IF TruthyStr(user) THEN user[1] ELSE "guest"

\* -------------------------------------------------------------- responses
\* What a request ended with: the handler, its arguments, the HTTP status,
\* the exception that ended it ("none", "HTTPException" raised by the
\* handler, or an exception the handler does not catch), the body, and
\* whether the handler called the store.
Response(op, req, code, exc, body, touched) ==
    [op |-> op, req |-> req, code |-> code, exc |-> exc, body |-> body,
     touched |-> touched]

NoDatabase(op, req) ==
    Response(op, req, 500, "HTTPException", "Database not available", FALSE)

\* ObjectId(s) raised bson.errors.InvalidId; nothing catches it.
InvalidIdRaised(op, req) ==
    Response(op, req, 500, "InvalidId", "Internal Server Error", FALSE)

\* ---------------------------------------------------------------- handlers
\* A bootstrap that does not look at what the collection holds.
SeedAlways(coll) == TRUE

\* seed_data: db["career"].count_documents({}) == 0
SeedNeeded(coll) == Len(coll) = 0

\* seed_data (startup hook): the three sample careers, into an empty
\* career collection only.
seed_data ==
    /\ IF DbAbsent
       THEN /\ resp' = Response("seed_data", <<>>, 0, "none", "skipped", FALSE)
            /\ UNCHANGED career
       ELSE /\ career' = IF SeedNeeded(career)
                         THEN InsertMany(career, SeedCareers(Len(career)))
                         ELSE career
            /\ resp' = Response("seed_data", <<>>, 0, "none", "done", TRUE)
    /\ UNCHANGED <<db, savedcareer, savedSeq, testquestion, testresult,
                   counselor, contactmessage, conc>>

\* GET /api/careers
list_careers(q, field, edu) ==
    /\ resp' =
         IF DbAbsent
         THEN Response("list_careers", <<q, field, edu>>, 200, "none", <<>>, FALSE)
         ELSE LET query == CareerQuery(q, field, edu)
                  docs  == Limit(SelectSeq(career,
                                   LAMBDA d : MatchCareerQuery(query, d)),
                                 CareerLimit)
              IN  Response("list_careers", <<q, field, edu>>, 200, "none",
                           [i \in 1..Len(docs) |-> CareerCard(to_str_id(docs[i]))],
                           TRUE)
    /\ UNCHANGED <<db, stores, conc>>

\* GET /api/careers/{career_id}
career_detail(career_id) ==
    /\ resp' =
         IF DbAbsent THEN NoDatabase("career_detail", career_id)
         ELSE IF ~IsValidOid(career_id)
         THEN InvalidIdRaised("career_detail", career_id)
         ELSE LET doc == FindOneById(career, ObjectId(career_id))
              IN  IF doc = None
                  THEN Response("career_detail", career_id, 404,
                                "HTTPException", "Not found", TRUE)
                  ELSE Response("career_detail", career_id, 200, "none",
                                to_str_id(doc[1]), TRUE)
    /\ UNCHANGED <<db, stores, conc>>

\* The savedcareer document create_document inserts for a SavedCareer item.
SavedDoc(n, u, k) ==
    [_id |-> <<"savedcareer", n>>, user_id |-> u, career_id |-> k]

\* POST /api/save
save_career(u, k) ==
    /\ IF DbAbsent
       THEN /\ resp' = NoDatabase("save_career", <<u, k>>)
            /\ UNCHANGED <<savedcareer, savedSeq>>
       ELSE IF FindOneSaved(savedcareer, u, k) # None
       THEN /\ resp' = Response("save_career", <<u, k>>, 201, "none",
                                [status |-> "exists", id |-> None], TRUE)
            /\ UNCHANGED <<savedcareer, savedSeq>>
       ELSE /\ savedSeq < MaxSaved
            /\ savedcareer' = CreateDocument(savedcareer,
                                             SavedDoc(savedSeq + 1, u, k))
            /\ savedSeq' = savedSeq + 1
            /\ resp' = Response("save_career", <<u, k>>, 201, "none",
                                [status |-> "ok",
                                 id |-> Some(StrOid(<<"savedcareer", savedSeq + 1>>))],
                                TRUE)
    /\ UNCHANGED <<db, career, testquestion, testresult, counselor,
                   contactmessage, conc>>

\* d["id"] = str(d.pop("_id")) on a savedcareer document.
SavedView(d) ==
    [id |-> StrOid(d._id), user_id |-> d.user_id, career_id |-> d.career_id]

\* GET /api/saved/{user_id}
list_saved(u) ==
    /\ resp' =
         IF DbAbsent
         THEN Response("list_saved", u, 200, "none", <<>>, FALSE)
         ELSE LET docs == FindSavedByUser(savedcareer, u)
              IN  Response("list_saved", u, 200, "none",
                           [i \in 1..Len(docs) |-> SavedView(docs[i])], TRUE)
    /\ UNCHANGED <<db, stores, conc>>

\* DELETE /api/saved/{user_id}/{saved_id}
delete_saved(u, saved_id) ==
    /\ IF DbAbsent
       THEN /\ resp' = NoDatabase("delete_saved", <<u, saved_id>>)
            /\ UNCHANGED savedcareer
       ELSE IF ~IsValidOid(saved_id)
       THEN /\ resp' = InvalidIdRaised("delete_saved", <<u, saved_id>>)
            /\ UNCHANGED savedcareer
       ELSE /\ savedcareer' = DeleteOneSaved(savedcareer, ObjectId(saved_id), u)
            /\ resp' = Response("delete_saved", <<u, saved_id>>, 200, "none",
                                [status |-> "deleted"], TRUE)
    /\ UNCHANGED <<db, career, savedSeq, testquestion, testresult, counselor,
                   contactmessage, conc>>

\* d.pop("_id", None) on a testquestion document.
QuestionView(d) == [step |-> d.step, keys |-> d.keys]

QuestionViews(docs) == [i \in 1..Len(docs) |-> QuestionView(docs[i])]

\* GET /api/test/questions
get_questions ==
    /\ IF DbAbsent
       THEN /\ resp' = Response("get_questions", <<>>, 200, "none",
                                FallbackQuestions, FALSE)
            /\ UNCHANGED testquestion
       ELSE LET docs == SortByStep(testquestion)
            IN  IF Len(docs) # 0
                THEN /\ resp' = Response("get_questions", <<>>, 200, "none",
                                         QuestionViews(docs), TRUE)
                     /\ UNCHANGED testquestion
                ELSE /\ testquestion' =
                          InsertMany(testquestion, SeedQuestions(Len(testquestion)))
                     /\ resp' = Response("get_questions", <<>>, 200, "none",
                                         QuestionViews(SortByStep(testquestion')),
                                         TRUE)
    /\ UNCHANGED <<db, career, savedcareer, savedSeq, testresult, counselor,
                   contactmessage, conc>>

\* submit_test: docs, then ids.
RecommendedIds(answers) ==
    LET filters == QuizFilters(answers)
        docs == IF DbTruthy
                THEN Limit(SelectSeq(career,
                               LAMBDA d : MatchQuizQuery(filters, d)), QuizLimit)
                ELSE <<>>
    IN  [i \in 1..Len(docs) |-> StrOid(docs[i]._id)]

\* POST /api/test/submit
submit_test(user, answers) ==
    LET ids == RecommendedIds(answers)
    IN  /\ IF DbTruthy
           THEN /\ Len(testresult) < MaxResults
                /\ testresult' = CreateDocument(testresult,
                       [_id |-> <<"testresult", Len(testresult) + 1>>,
                        user_id |-> StoredUser(user), answers |-> answers,
                        recommended_ids |-> ids])
           ELSE UNCHANGED testresult
        /\ resp' = Response("submit_test", <<user, answers>>, 200, "none",
                            [user_id |-> user, recommended_ids |-> ids],
                            DbTruthy)
        /\ UNCHANGED <<db, career, savedcareer, savedSeq, testquestion,
                       counselor, contactmessage, conc>>

\* d.pop("_id", None) on a counselor document.
CounselorView(d) == [name |-> d.name, phone |-> d.phone, district |-> d.district]

CounselorViews(docs) == [i \in 1..Len(docs) |-> CounselorView(docs[i])]

\* GET /api/counselors
counselors ==
    /\ IF DbAbsent
       THEN /\ resp' = Response("counselors", <<>>, 200, "none", <<>>, FALSE)
            /\ UNCHANGED counselor
       ELSE LET docs == Limit(counselor, CounselorLimit)
            IN  IF Len(docs) # 0
                THEN /\ resp' = Response("counselors", <<>>, 200, "none",
                                         CounselorViews(docs), TRUE)
                     /\ UNCHANGED counselor
                ELSE /\ counselor' =
                          InsertMany(counselor, SeedCounselors(Len(counselor)))
                     /\ resp' = Response("counselors", <<>>, 200, "none",
                                   CounselorViews(Limit(counselor', CounselorLimit)),
                                   TRUE)
    /\ UNCHANGED <<db, career, savedcareer, savedSeq, testquestion, testresult,
                   contactmessage, conc>>

\* POST /api/contact
contact(msg) ==
    /\ IF DbTruthy
       THEN /\ Len(contactmessage) < MaxContact
            /\ contactmessage' = CreateDocument(contactmessage,
                   [_id |-> <<"contactmessage", Len(contactmessage) + 1>>,
                    name |-> msg.name, email |-> msg.email,
                    message |-> msg.message])
       ELSE UNCHANGED contactmessage
    /\ resp' = Response("contact", msg, 200, "none", [status |-> "received"],
                        DbTruthy)
    /\ UNCHANGED <<db, career, savedcareer, savedSeq, testquestion, testresult,
                   counselor, conc>>

\* ------------------------------------------------------- request inputs
\* Careers an administrator inserted beside the seeded ones: the kinds the
\* quiz table asks for (hands-on, creative, logic; Self-employed, Mixed).
TxLineman == <<"L","i","n","e","m","a","n">>
TxDesigner == <<"D","e","s","i","g","n","e","r">>
TxEngineer == <<"E","n","g","i","n","e","e","r">>
TxTutor == <<"T","u","t","o","r">>
TxIti == <<"I","T","I">>
TxDiploma == <<"D","i","p","l","o","m","a">>
TxBTech == <<"B",".","T","e","c","h">>

CareerKinds ==
    SeedCareers(0) \o
    << CareerDoc(0, TxLineman, TxElectricianTe, TxIti, "Government", TxTrades,
                 <<TxHandsOn, TxFixing>>),
       CareerDoc(0, TxDesigner, TxTeacherTe, TxDiploma, "Self-employed",
                 TxDesign, <<TxCreative>>),
       CareerDoc(0, TxEngineer, TxNurseTe, TxBTech, "Mixed", TxEngineering,
                 <<TxLogic>>),
       CareerDoc(0, TxTutor, TxTeacherTe, TxTeacherEdu, "Private", TxEducation,
                 <<TxTeaching>>) >>

\* A career collection of n documents, in insertion order.
Catalog(n) ==
    [i \in 1..n |->
        [CareerKinds[((i - 1) % Len(CareerKinds)) + 1]
            EXCEPT !._id = <<"career", i>>]]

Users == {"u1", "u2"}

\* career_id strings of save requests (any string is accepted).
SaveIds == {StrOid(<<"career", 1>>), StrOid(<<"career", 2>>)}

\* saved_id strings of delete requests.
SavedIdStrings ==
    {StrOid(<<"savedcareer", n>>) : n \in 1..MaxSaved}
    \cup {UpperStr(<<"savedcareer", 1>>), BadStr}

\* career_id strings of detail requests.
DetailIds ==
    {StrOid(<<"career", 1>>), UpperStr(<<"career", 2>>),
     StrOid(<<"career", 0>>), BadStr}

SubmitUsers == {None, Some(""), Some("u1")}

ContactInputs ==
    {[name |-> "Ravi", email |-> "ravi@example.com", message |-> "hello"]}

\* Query parameters: absent, empty, plain texts in either case, a tag, and
\* texts with the character ".".
QTexts ==
    {None, Some(<<>>), Some(TxNurse), Some(<<"n","u","r">>),
     Some(<<"n",".","r">>), Some(TxHelping), Some(<<"t","r","a","d">>)}
FieldTexts ==
    {None, Some(<<>>), Some(TxTrades), Some(<<"t","r","a","d","e","s">>)}
EduTexts ==
    {None, Some(<<>>), Some(<<"i","t","i">>), Some(<<"b",".">>)}

AnswerLists ==
    {<<>>, <<"unknown_key">>, <<"fix", "govt">>, <<"help">>,
     <<"teach", "out", "secure", "people", "private">>, <<"govt", "self">>,
     <<"create">>, <<"logic", "in">>, <<"help", "govt">>}

\* ---------------------------------------------------------- specifications
Clients == 1..NClients

Startup == Response("startup", <<>>, 0, "none", "", FALSE)

InitCommon ==
    /\ savedcareer = <<>>
    /\ savedSeq = 0
    /\ testquestion = <<>>
    /\ testresult = <<>>
    /\ counselor = <<>>
    /\ contactmessage = <<>>
    /\ resp = Startup
    /\ pc = [c \in Clients |-> "idle"]
    /\ loc = [c \in Clients |-> <<>>]
    /\ overlapped = FALSE

\* The process after import: the store handle is there or not, and the
\* store holds what earlier runs and the administrator left in it.
Init ==
    /\ db \in {"none", "available"}
    /\ career \in {<<>>, Catalog(CatalogSmall)}
    /\ InitCommon

\* One request at a time, each handled to its end.
Next ==
    \/ seed_data
    \/ \E q \in {None, Some(TxNurse)} : list_careers(q, None, None)
    \/ \E s \in DetailIds : career_detail(s)
    \/ \E u \in Users, k \in SaveIds : save_career(u, k)
    \/ \E u \in Users : list_saved(u)
    \/ \E u \in Users, s \in SavedIdStrings : delete_saved(u, s)
    \/ get_questions
    \/ \E u \in SubmitUsers, a \in {<<>>, <<"fix", "govt">>} : submit_test(u, a)
    \/ counselors
    \/ \E m \in ContactInputs : contact(m)

Spec == Init /\ [][Next]_vars

\* The saved-career requests, with detail lookups and the bootstrap.
SavedNext ==
    \/ seed_data
    \/ \E s \in DetailIds : career_detail(s)
    \/ \E u \in Users, k \in SaveIds : save_career(u, k)
    \/ \E u \in Users : list_saved(u)
    \/ \E u \in Users, s \in SavedIdStrings : delete_saved(u, s)

SavedSpec == Init /\ [][SavedNext]_vars

\* The catalog and quiz queries over small and large career collections.
QueryInit ==
    /\ db \in {"none", "available"}
    /\ career \in {<<>>, Catalog(CatalogSmall), Catalog(CatalogLarge)}
    /\ InitCommon

CatalogNext ==
    \/ seed_data
    \/ \E q \in QTexts, f \in FieldTexts, e \in EduTexts : list_careers(q, f, e)

CatalogSpec == QueryInit /\ [][CatalogNext]_vars

QuizNext ==
    \/ seed_data
    \/ \E u \in SubmitUsers, a \in AnswerLists : submit_test(u, a)

QuizSpec == QueryInit /\ [][QuizNext]_vars

\* Quiz submissions beside the requests that fill the other collections.
SubmitNext ==
    \/ seed_data
    \/ \E k \in SaveIds : save_career("u1", k)
    \/ get_questions
    \/ \E u \in SubmitUsers, a \in {<<>>, <<"fix", "govt">>, <<"help">>} :
          submit_test(u, a)

SubmitSpec == Init /\ [][SubmitNext]_vars

\* Every handler of a process that has no store handle.
DegradedInit ==
    /\ db = "none"
    /\ career \in {<<>>, Catalog(CatalogSmall)}
    /\ InitCommon

DegradedNext ==
    \/ seed_data
    \/ \E q \in QTexts, f \in FieldTexts, e \in EduTexts : list_careers(q, f, e)
    \/ \E s \in DetailIds : career_detail(s)
    \/ \E u \in Users, k \in SaveIds : save_career(u, k)
    \/ \E u \in Users : list_saved(u)
    \/ \E u \in Users, s \in SavedIdStrings : delete_saved(u, s)
    \/ get_questions
    \/ \E u \in SubmitUsers, a \in AnswerLists : submit_test(u, a)
    \/ counselors
    \/ \E m \in ContactInputs : contact(m)

DegradedSpec == DegradedInit /\ [][DegradedNext]_vars

\* ------------------------------------------------- interleaved requests
\* Requests of several clients, a handler's store calls being the steps:
\* save_career is find_one, then create_document; get_questions is find,
\* then insert_many, then find again.  A client between two calls of its
\* handler holds the handler's local values in loc.
MidQuestions(c) == pc[c] \in {"q_insert", "q_refind"}

PendingInserts == Cardinality({c \in Clients : pc[c] = "save_insert"})

\* save_career up to its find_one.
save_find(c, u, k) ==
    /\ pc[c] = "idle"
    /\ IF FindOneSaved(savedcareer, u, k) # None
       THEN /\ resp' = Response("save_career", <<u, k>>, 201, "none",
                                [status |-> "exists", id |-> None], TRUE)
            /\ UNCHANGED <<pc, loc>>
       ELSE /\ savedSeq + PendingInserts < MaxSaved
            /\ pc' = [pc EXCEPT ![c] = "save_insert"]
            /\ loc' = [loc EXCEPT ![c] = <<u, k>>]
            /\ UNCHANGED resp
    /\ UNCHANGED <<db, stores, overlapped>>

\* save_career from its create_document on.
save_insert(c) ==
    /\ pc[c] = "save_insert"
    /\ savedcareer' = CreateDocument(savedcareer,
                          SavedDoc(savedSeq + 1, loc[c][1], loc[c][2]))
    /\ savedSeq' = savedSeq + 1
    /\ resp' = Response("save_career", loc[c], 201, "none",
                        [status |-> "ok",
                         id |-> Some(StrOid(<<"savedcareer", savedSeq + 1>>))],
                        TRUE)
    /\ pc' = [pc EXCEPT ![c] = "idle"]
    /\ loc' = [loc EXCEPT ![c] = <<>>]
    /\ UNCHANGED <<db, career, testquestion, testresult, counselor,
                   contactmessage, overlapped>>

\* list_saved and delete_saved are one store call each.
client_list_saved(c, u) == pc[c] = "idle" /\ list_saved(u)

client_delete_saved(c, u, s) == pc[c] = "idle" /\ delete_saved(u, s)

\* get_questions up to its first find.
questions_find(c) ==
    /\ pc[c] = "idle"
    /\ overlapped' = (overlapped \/ \E o \in Clients \ {c} : MidQuestions(o))
    /\ LET docs == SortByStep(testquestion)
       IN  IF Len(docs) # 0
           THEN /\ resp' = Response("get_questions", <<>>, 200, "none",
                                    QuestionViews(docs), TRUE)
                /\ UNCHANGED pc
           ELSE /\ pc' = [pc EXCEPT ![c] = "q_insert"]
                /\ UNCHANGED resp
    /\ UNCHANGED <<db, stores, loc>>

\* get_questions: insert_many of the seeds.  The store inserts the
\* documents of one insert_many one after the other, each visible to the
\* other requests as soon as it is in; loc holds how many are in.
questions_insert(c) ==
    /\ pc[c] = "q_insert"
    /\ LET n == IF loc[c] = <<>> THEN 0 ELSE loc[c][1]
           d == [SeedQuestions(0)[n + 1]
                    EXCEPT !._id = <<"testquestion", Len(testquestion) + 1>>]
       IN  /\ testquestion' = InsertMany(testquestion, <<d>>)
           /\ IF n + 1 = Len(SeedQuestionKeys)
              THEN /\ pc' = [pc EXCEPT ![c] = "q_refind"]
                   /\ loc' = [loc EXCEPT ![c] = <<>>]
              ELSE /\ loc' = [loc EXCEPT ![c] = <<n + 1>>]
                   /\ UNCHANGED pc
    /\ UNCHANGED <<db, career, savedcareer, savedSeq, testresult, counselor,
                   contactmessage, resp, overlapped>>

\* get_questions: the second find, and the response.
questions_refind(c) ==
    /\ pc[c] = "q_refind"
    /\ resp' = Response("get_questions", <<>>, 200, "none",
                        QuestionViews(SortByStep(testquestion)), TRUE)
    /\ pc' = [pc EXCEPT ![c] = "idle"]
    /\ UNCHANGED <<db, stores, loc, overlapped>>

ConcInit ==
    /\ db = "available"
    /\ career = <<>>
    /\ InitCommon

\* Interleaved saved-career requests.
SaveConcNext ==
    \E c \in Clients :
        \/ \E u \in Users, k \in SaveIds : save_find(c, u, k)
        \/ save_insert(c)
        \/ \E u \in Users : client_list_saved(c, u)
        \/ \E u \in Users, s \in SavedIdStrings : client_delete_saved(c, u, s)

SaveConcSpec == ConcInit /\ [][SaveConcNext]_vars

\* Interleaved get_questions requests on an empty testquestion collection.
QuestionsConcNext ==
    \E c \in Clients :
        \/ questions_find(c)
        \/ questions_insert(c)
        \/ questions_refind(c)

QuestionsConcSpec == ConcInit /\ [][QuestionsConcNext]_vars

\* ------------------------------------------------------------------ claims
Range(seq) == {seq[i] : i \in 1..Len(seq)}

PairCount(coll, u, k) ==
    Cardinality({i \in 1..Len(coll) :
                    coll[i].user_id = u /\ coll[i].career_id = k})

IdsOf(coll) == {coll[i]._id : i \in 1..Len(coll)}

\* One save_career(u, k) handled on a store.
SaveStep(u, k) ==
    (resp'.op = "save_career" /\ resp'.code = 201 /\ resp'.req = <<u, k>>) =>
        /\ PairCount(savedcareer', u, k) = 1
        /\ PairCount(savedcareer, u, k) = 0 =>
              /\ resp'.body.status = "ok"
              /\ resp'.body.id # None
              /\ resp'.body.id[1].kind = "hex"
              /\ ObjectId(resp'.body.id[1]) \notin IdsOf(savedcareer)
              /\ \E d \in Range(savedcareer') :
                    /\ d._id = ObjectId(resp'.body.id[1])
                    /\ d.user_id = u /\ d.career_id = k
              /\ Len(savedcareer') = Len(savedcareer) + 1
        /\ PairCount(savedcareer, u, k) > 0 =>
              /\ resp'.body.status = "exists"
              /\ savedcareer' = savedcareer

\* C1: of two save_career requests with one (user_id, career_id), the
\* second after the first has returned, the first (the pair not yet saved)
\* answers "ok" with an identifier no record had and inserts one record of
\* the pair; the second (the pair saved) answers "exists" and inserts
\* nothing; one record of the pair is there after each.
SavedIdempotence ==
    [][\A u \in Users, k \in SaveIds : SaveStep(u, k)]_vars

\* C1 witness: a save answered "exists" with one record of its pair there.
SavedTwiceReached ==
    /\ resp.op = "save_career"
    /\ resp.code = 201
    /\ resp.body.status = "exists"
    /\ PairCount(savedcareer, resp.req[1], resp.req[2]) = 1
    /\ Len(savedcareer) > 1

\* One delete_saved with a well-formed identifier handled on a store.
DeleteStep ==
    (resp'.op = "delete_saved" /\ db = "available"
        /\ IsValidOid(resp'.req[2])) =>
        LET u   == resp'.req[1]
            oid == ObjectId(resp'.req[2])
            hit(d) == d._id = oid /\ d.user_id = u
        IN  /\ resp'.code = 200
            /\ resp'.body.status = "deleted"
            /\ savedcareer' = SelectSeq(savedcareer, LAMBDA d : ~hit(d))
            /\ Len(savedcareer') >= Len(savedcareer) - 1
            /\ \A d \in Range(savedcareer) :
                  d.user_id # u => d \in Range(savedcareer')

\* C3: delete_saved(u, s) with a well-formed s answers "deleted" and takes
\* out the record whose identifier is s exactly when that record is u's;
\* at most one record goes and every other record stays, in place.
DeleteIsolation == [][DeleteStep]_vars

\* C3 witness: a delete with another user's record identifier was answered
\* and that record is still there.
CrossUserDeleteReached ==
    /\ resp.op = "delete_saved"
    /\ resp.code = 200
    /\ \E d \in Range(savedcareer) :
          d._id = ObjectId(resp.req[2]) /\ d.user_id # resp.req[1]

\* One seed_data run on a store.
SeedStep ==
    (resp'.op = "seed_data" /\ db = "available") =>
        IF Len(career) = 0
        THEN /\ Len(career') = 3
             /\ [i \in 1..3 |-> career'[i].name_en]
                    = <<TxNurse, TxElectrician, TxTeacher>>
             /\ Cardinality(IdsOf(career')) = 3
        ELSE career' = career

\* C8: seed_data on an empty career collection inserts the three default
\* careers, and on a collection that holds anything (the three of an
\* earlier run, or others) it changes nothing.
SeedIdempotence == [][SeedStep]_vars

\* C8 witness: the bootstrap ran on a store and the collection holds the
\* three seeded careers.
SeededReached ==
    /\ resp.op = "seed_data"
    /\ db = "available"
    /\ Len(career) = 3
    /\ career[1].name_en = TxNurse

\* One career_detail or delete_saved with a malformed identifier string.
MalformedStep ==
    LET s == IF resp'.op = "career_detail" THEN resp'.req ELSE resp'.req[2]
    IN  (resp'.op \in {"career_detail", "delete_saved"} /\ db = "available"
            /\ ~IsValidOid(s)) =>
            /\ resp'.code \in 400..499
            /\ resp'.exc = "HTTPException"
            /\ UNCHANGED stores

\* C6: a career_detail or delete_saved request whose identifier string is
\* malformed ends as a client error (4xx) raised by the handler, not as an
\* exception nothing catches, and changes no collection.
MalformedIdIsClientError == [][MalformedStep]_vars

\* What each handler answers without a store handle.
DegradedAnswer(r) ==
    /\ r.touched = FALSE
    /\ r.op \in {"list_careers", "list_saved", "counselors"} =>
          r.code = 200 /\ r.body = <<>>
    /\ r.op = "get_questions" =>
          r.code = 200 /\ Len(r.body) = 1 /\ r.body[1].step = 1
    /\ r.op \in {"career_detail", "save_career", "delete_saved"} =>
          r.code = 500
    /\ r.op = "submit_test" =>
          r.code = 200 /\ r.body.recommended_ids = <<>>
    /\ r.op = "contact" =>
          r.code = 200 /\ r.body.status = "received"

\* C7: without a store handle the list handlers answer the empty list,
\* get_questions one fallback question of step 1, career_detail, save_career
\* and delete_saved 500, submit_test no recommended identifiers, contact
\* "received"; no handler calls the store and no collection changes.
DegradedMode ==
    [][db = "none" => (DegradedAnswer(resp') /\ UNCHANGED stores)]_vars

\* C7 witness: the fallback question was served without a store.
FallbackServed ==
    /\ db = "none"
    /\ resp.op = "get_questions"
    /\ Len(resp.body) = 1

\* C4: the predicate the table gives an answer key; a key that is not in
\* the table gives none.
QuizPredicate(a, d) ==
    CASE a = "fix"     -> InArray(TxHandsOn, d.tags) \/ d.field = TxTrades
      [] a = "help"    -> InArray(TxHelping, d.tags) \/ d.field = TxHealthcare
      [] a = "teach"   -> InArray(TxTeaching, d.tags) \/ d.field = TxEducation
      [] a = "create"  -> InArray(TxCreative, d.tags) \/ d.field = TxDesign
      [] a = "logic"   -> InArray(TxLogic, d.tags) \/ d.field = TxEngineering
      [] a = "govt"    -> d.job_type = "Government"
      [] a = "private" -> d.job_type = "Private"
      [] a = "self"    -> d.job_type = "Self-employed"
      [] OTHER         -> TRUE

\* The places of the documents of positions M that come first, at most n.
FirstOf(M, n) == {i \in M : Cardinality({j \in M : j < i}) < n}

\* ids lists, in store order, the identifiers of the careers at positions P.
ListsInOrder(ids, P) ==
    /\ Len(ids) = Cardinality(P)
    /\ \A i \in P :
          ids[Cardinality({j \in P : j < i}) + 1] = StrOid(career[i]._id)

\* C4: submit_test returns the identifiers of the first up-to-6 careers, in
\* store order, that satisfy the predicates of all recognised answers.
QuizMapping ==
    (resp.op = "submit_test" /\ db = "available") =>
        LET answers == resp.req[2]
            ids == resp.body.recommended_ids
            M == {i \in 1..Len(career) :
                     \A j \in 1..Len(answers) :
                        QuizPredicate(answers[j], career[i])}
        IN  /\ resp.code = 200
            /\ resp.exc = "none"
            /\ ListsInOrder(ids, FirstOf(M, 6))
            /\ Len(ids) <= 6
            /\ \A k \in 1..Len(ids) : ObjectId(ids[k]) \in IdsOf(career)

\* C4 witness: ["fix", "govt"] was answered from a collection with more
\* than six matching careers, and six came back.
QuizCapReached ==
    /\ resp.op = "submit_test"
    /\ db = "available"
    /\ resp.req[2] = <<"fix", "govt">>
    /\ Len(resp.body.recommended_ids) = 6
    /\ Cardinality({i \in 1..Len(career) :
           /\ QuizPredicate("fix", career[i])
           /\ QuizPredicate("govt", career[i])}) > 6

\* Case-insensitive containment of one text in another.
ContainsText(q, text) ==
    \E i \in 0..(Len(text) - Len(q)) :
        \A j \in 1..Len(q) : Lower(q[j]) = Lower(text[i + j])

\* The conditions C5 gives for q, field and edu (a parameter that is there
\* with no text in it is read as not supplied).
CatalogCondition(q, field, edu, d) ==
    /\ TruthyText(q) =>
          \/ ContainsText(q[1], d.name_en)
          \/ ContainsText(q[1], d.name_te)
          \/ ContainsText(q[1], d.field)
          \/ InArray(q[1], d.tags)
    /\ TruthyText(field) => d.field = field[1]
    /\ TruthyText(edu) => ContainsText(edu[1], d.education)

\* C5: list_careers returns the first up-to-60 careers, in store order,
\* that satisfy all supplied conditions, and only careers that do.
CatalogQuery ==
    (resp.op = "list_careers" /\ db = "available") =>
        LET M == {i \in 1..Len(career) :
                     CatalogCondition(resp.req[1], resp.req[2], resp.req[3],
                                      career[i])}
        IN  /\ ListsInOrder([k \in 1..Len(resp.body) |-> resp.body[k].id],
                            FirstOf(M, 60))
            /\ Len(resp.body) <= 60

\* A submit_test on a store inserts one testresult record with the answers,
\* the returned identifiers and the submitted user_id, or "guest" for the
\* submitted values in guests; the result carries the submitted user_id;
\* career, savedcareer and testquestion stay as they were.
SubmitStep(guests) ==
    (resp'.op = "submit_test" /\ db = "available") =>
        LET user == resp'.req[1]
            rec  == testresult'[Len(testresult')]
        IN  /\ Len(testresult') = Len(testresult) + 1
            /\ SubSeq(testresult', 1, Len(testresult)) = testresult
            /\ rec.user_id = (IF user \in guests THEN "guest" ELSE user[1])
            /\ rec.answers = resp'.req[2]
            /\ rec.recommended_ids = resp'.body.recommended_ids
            /\ resp'.body.user_id = user
            /\ UNCHANGED <<career, savedcareer, testquestion>>

\* C10 as claimed: the stored user_id is "guest" when no user_id was
\* submitted, and the submitted user_id otherwise.
SubmissionHistoryAsClaimed == [][SubmitStep({None})]_vars

\* C10 amended: as claimed, the stored user_id being "guest" also when the
\* submitted user_id is the empty string.
SubmissionHistory == [][SubmitStep({None, Some("")})]_vars

\* C10 witness: a submission with an empty user_id was stored as "guest"
\* and returned with the empty user_id, the other collections holding
\* records.
EmptyUserStoredAsGuest ==
    /\ resp.op = "submit_test"
    /\ db = "available"
    /\ resp.req[1] = Some("")
    /\ resp.body.user_id = Some("")
    /\ Len(testresult) = 1
    /\ testresult[1].user_id = "guest"
    /\ Len(resp.body.recommended_ids) > 0
    /\ savedcareer # <<>>
    /\ testquestion # <<>>

\* C2: whatever the interleaving of the clients' requests, the savedcareer
\* collection holds at most one record for each (user_id, career_id) pair.
AtMostOnePerPair ==
    \A i, j \in 1..Len(savedcareer) :
        (savedcareer[i].user_id = savedcareer[j].user_id
            /\ savedcareer[i].career_id = savedcareer[j].career_id) => i = j

StepsOf(docs) == [i \in 1..Len(docs) |-> docs[i].step]

StepsUnique ==
    \A i, j \in 1..Len(testquestion) :
        testquestion[i].step = testquestion[j].step => i = j

\* C9 as claimed: at most one question per step, and every get_questions
\* response lists steps 1..5, each once, in ascending order.
QuestionStepsUnique ==
    /\ StepsUnique
    /\ resp.op = "get_questions" => StepsOf(resp.body) = <<1, 2, 3, 4, 5>>

\* C9 amended: that holds as long as no get_questions request began while
\* another was between its first find and its response; whatever the
\* interleaving, a response lists its questions in non-descending step
\* order, and no step is held more often than there are clients.
QuestionSteps ==
    /\ ~overlapped => QuestionStepsUnique
    /\ resp.op = "get_questions" =>
          /\ Len(resp.body) > 0
          /\ \A i \in 1..(Len(resp.body) - 1) :
                resp.body[i].step <= resp.body[i + 1].step
    /\ \A s \in 1..5 :
          Cardinality({i \in 1..Len(testquestion) :
                          testquestion[i].step = s}) <= NClients

\* C9 witness: a response that lists a step twice, after two first
\* accesses that interleaved.
DuplicateStepsServed ==
    /\ overlapped
    /\ resp.op = "get_questions"
    /\ Len(resp.body) = 10
    /\ resp.body[1].step = resp.body[2].step

====
